---- MODULE Spec2Model ----
(***************************************************************************)
(* A model of the EA SBC squad calculator: the rating formula, the         *)
(* multiset enumerator, the precomputed combination table and the two      *)
(* search paths of the solver (SolverHelper.js, OptimalCombinations.js and *)
(* the SBCRatingCalculator class).                                         *)
(*                                                                         *)
(* The library is a set of synchronous request/response operations.  A     *)
(* behaviour of the model is a sequence of calls: from "idle" one          *)
(* operation is called with arguments drawn from bounded sets, its whole   *)
(* body runs and leaves its outcome in `result`, and Return goes back to   *)
(* "idle".                                                                 *)
(*                                                                         *)
(* JavaScript values.  An argument that the code expects to be an array is *)
(* a record [kind, items] with kind "array", "null" or "undefined"; an     *)
(* optional number is a record [kind, value] with kind "number" or         *)
(* "undefined".  An object with integer keys ({rating: count}) is a        *)
(* function whose domain is the set of its keys; Object.entries and        *)
(* Object.keys visit integer keys in ascending order.                      *)
(***************************************************************************)
EXTENDS Integers, Sequences, FiniteSets, TLC

VARIABLES pc, call, result, table, caller

vars == <<pc, call, result, table, caller>>

----------------------------------------------------------------------------
(* Bounds of the explored inputs *)

\* longest raw availableRatings list given to the exhaustive search
MaxAvailLen == 3

\* largest explicit maxSolutions argument
MaxMaxSolutions == 2

\* longest alphabet and largest size given to getMultisubsets directly
MaxAlphabetLen == 3

MaxSubsetSize == 4

----------------------------------------------------------------------------
(* Program constants *)

\* the fixed roster capacity the rating formula pads to and divides by
SquadCapacity == 11

\* constructor defaults of SBCRatingCalculator
defaultSquadSize == 11

defaultMaxSolutions == 50

\* default of maxSolutions in findOptimalSolutions
defaultOptimalMaxSolutions == 10

\* the fast path is tried only for inventories longer than this
FastPathMinInventory == 50

MinRating == 45

MaxRating == 99

MinSquadSize == 1

MaxSquadSize == 23

\* maxSolutions of the documented fast-path example as the test suite runs it
TestMaxSolutions == 5

MinTableRating == 80

MaxTableRating == 92

----------------------------------------------------------------------------
(* JavaScript values *)

Arr(s) == [kind |-> "array", items |-> s]

Null == [kind |-> "null", items |-> <<>>]

Undefined == [kind |-> "undefined", items |-> <<>>]

Num(n) == [kind |-> "number", value |-> n]

NoNum == [kind |-> "undefined", value |-> 0]

\* a destructuring default: used only when the property is undefined
OrDefaultArr(v) == IF v.kind = "undefined" THEN Arr(<<>>) ELSE v

OrDefaultNum(v, d) == IF v.kind = "undefined" THEN d ELSE v.value

\* an array literal or a map() result: the elements are computed when the
\* array is built, not when it is read
AsArray(f) == f \o <<>>

\* an object built key by key, likewise computed when built
AsObject(f) == f @@ <<>>

\* Array(n).fill(v)
Rep(v, n) == AsArray([i \in 1..n |-> v])

Min2(a, b) == IF a <= b THEN a ELSE b

Max2(a, b) == IF a >= b THEN a ELSE b

RECURSIVE SumSeq(_)
\* arr.reduce((a, b) => a + b, 0)
SumSeq(s) == IF s = <<>> THEN 0 ELSE Head(s) + SumSeq(Tail(s))

RECURSIVE Flatten(_)
\* concatenation of a sequence of sequences, in order
Flatten(ss) == IF ss = <<>> THEN <<>> ELSE Head(ss) \o Flatten(Tail(ss))

RECURSIVE SortedKeys(_)
\* the keys of an integer-keyed object in the order Object.keys visits them
SortedKeys(S) ==
    IF S = {} THEN <<>>
    ELSE LET m == CHOOSE x \in S : \A y \in S : x <= y
         IN  <<m>> \o SortedKeys(S \ {m})

\* arr.slice(0, end)
Slice0(s, end) ==
    LET e == IF end < 0 THEN Max2(Len(s) + end, 0) ELSE Min2(end, Len(s))
    IN  SubSeq(s, 1, e)

----------------------------------------------------------------------------
(* SolverHelper.getRating *)

\* The code works in floating point: avg = sum / 11, the correction is the
\* sum of (curr - avg) over the entries above avg, Math.round of
\* sum + correction, then Math.floor of that over 11.  Every quantity is a
\* multiple of 1/11, so the model carries them multiplied by 11:
\*   curr > avg                <=>  11 * curr > sum
\*   11 * correction            =   sum of (11 * curr - sum) over those
\*   Math.round(x)              =   floor(x + 1/2) = (2 * 11x + 11) \div 22
\* 11x is an integer, so x is never within 1/22 of a rounding boundary and
\* the floating point result is the exact one.
\* a wrong padding: the roster is cut or filled to ten entries
PadRatingsToTen(items) ==
    IF Len(items) < SquadCapacity - 1
    THEN items \o Rep(0, SquadCapacity - 1 - Len(items))
    ELSE SubSeq(items, 1, SquadCapacity - 1)

PadRatings(items) ==
    IF Len(items) < SquadCapacity
    THEN items \o Rep(0, SquadCapacity - Len(items))
    ELSE items

\* a wrong correction: the distance to the average counts on both sides
RatingOfPaddedBothSides(padded) ==
    LET sum == SumSeq(padded)
        away == [i \in 1..Len(padded) |->
                    IF SquadCapacity * padded[i] > sum
                    THEN SquadCapacity * padded[i] - sum
                    ELSE sum - SquadCapacity * padded[i]]
        rounded == (2 * (SquadCapacity * sum + SumSeq(away)) + SquadCapacity)
                       \div (2 * SquadCapacity)
    IN  rounded \div SquadCapacity

RatingOfPadded(padded) ==
    LET sum == SumSeq(padded)
        above == [i \in 1..Len(padded) |->
                    IF SquadCapacity * padded[i] > sum
                    THEN SquadCapacity * padded[i] - sum ELSE 0]
        correction11 == SumSeq(above)
        sumWithCorrection11 == SquadCapacity * sum + correction11
        rounded == (2 * sumWithCorrection11 + SquadCapacity)
                       \div (2 * SquadCapacity)
    IN  rounded \div SquadCapacity

\* a wrong formula: the average taken over the members present, not over 11
RatingNoPadding(ratings) ==
    IF ratings.kind # "array" \/ Len(ratings.items) = 0 THEN 0
    ELSE LET items == ratings.items
             n == Len(items)
             sum == SumSeq(items)
             above == [i \in 1..n |->
                         IF n * items[i] > sum THEN n * items[i] - sum ELSE 0]
             rounded == (2 * (n * sum + SumSeq(above)) + n) \div (2 * n)
         IN  rounded \div SquadCapacity

getRating(ratings) ==
    IF ratings.kind # "array" \/ Len(ratings.items) = 0 THEN 0
    ELSE RatingOfPadded(PadRatings(ratings.items))

----------------------------------------------------------------------------
(* OptimalCombinations.js: the precomputed table and its helpers *)

\* target rating -> list of {rating: count} combinations, as authored
OPTIMAL_SBC_COMBINATIONS ==
    80 :> <<
        (82 :> 1 @@ 81 :> 2 @@ 80 :> 8),
        (83 :> 1 @@ 80 :> 10),
        (82 :> 2 @@ 80 :> 9),
        (81 :> 4 @@ 80 :> 7),
        (84 :> 1 @@ 79 :> 10),
        (82 :> 3 @@ 79 :> 8) >> @@
    81 :> <<
        (82 :> 3 @@ 81 :> 8),
        (83 :> 1 @@ 81 :> 10),
        (84 :> 1 @@ 80 :> 10),
        (82 :> 5 @@ 80 :> 6),
        (83 :> 2 @@ 80 :> 9),
        (85 :> 1 @@ 79 :> 10) >> @@
    82 :> <<
        (83 :> 2 @@ 82 :> 9),
        (84 :> 1 @@ 82 :> 10),
        (83 :> 4 @@ 81 :> 7),
        (85 :> 1 @@ 81 :> 10),
        (84 :> 2 @@ 81 :> 9),
        (86 :> 1 @@ 80 :> 10) >> @@
    83 :> <<
        (83 :> 9 @@ 82 :> 2),
        (84 :> 1 @@ 83 :> 6 @@ 82 :> 4),
        (85 :> 1 @@ 82 :> 10),
        (84 :> 2 @@ 83 :> 7 @@ 82 :> 2),
        (86 :> 1 @@ 82 :> 10),
        (84 :> 3 @@ 82 :> 8) >> @@
    84 :> <<
        (84 :> 11),
        (85 :> 1 @@ 84 :> 8 @@ 83 :> 2),
        (86 :> 1 @@ 83 :> 10),
        (85 :> 2 @@ 84 :> 7 @@ 83 :> 2),
        (87 :> 1 @@ 83 :> 10),
        (85 :> 3 @@ 83 :> 8) >> @@
    85 :> <<
        (85 :> 11),
        (86 :> 1 @@ 85 :> 8 @@ 84 :> 2),
        (87 :> 1 @@ 84 :> 10),
        (86 :> 2 @@ 85 :> 7 @@ 84 :> 2),
        (88 :> 1 @@ 84 :> 10),
        (86 :> 3 @@ 84 :> 8) >> @@
    86 :> <<
        (86 :> 11),
        (87 :> 1 @@ 86 :> 8 @@ 85 :> 2),
        (88 :> 1 @@ 85 :> 10),
        (87 :> 2 @@ 86 :> 7 @@ 85 :> 2),
        (89 :> 1 @@ 85 :> 10),
        (87 :> 3 @@ 85 :> 8) >> @@
    87 :> <<
        (87 :> 11),
        (88 :> 1 @@ 87 :> 8 @@ 86 :> 2),
        (89 :> 1 @@ 86 :> 10),
        (88 :> 2 @@ 87 :> 7 @@ 86 :> 2),
        (90 :> 1 @@ 86 :> 10),
        (88 :> 3 @@ 86 :> 8) >> @@
    88 :> <<
        (88 :> 11),
        (89 :> 1 @@ 88 :> 8 @@ 87 :> 2),
        (90 :> 1 @@ 87 :> 10),
        (89 :> 2 @@ 88 :> 7 @@ 87 :> 2),
        (91 :> 1 @@ 87 :> 10),
        (89 :> 3 @@ 87 :> 8) >> @@
    89 :> <<
        (89 :> 11),
        (90 :> 1 @@ 89 :> 8 @@ 88 :> 2),
        (91 :> 1 @@ 88 :> 10),
        (90 :> 2 @@ 89 :> 7 @@ 88 :> 2),
        (92 :> 1 @@ 88 :> 10),
        (90 :> 3 @@ 88 :> 8) >> @@
    90 :> <<
        (90 :> 11),
        (91 :> 1 @@ 90 :> 8 @@ 89 :> 2),
        (92 :> 1 @@ 89 :> 10),
        (91 :> 2 @@ 90 :> 7 @@ 89 :> 2),
        (93 :> 1 @@ 89 :> 10),
        (91 :> 3 @@ 89 :> 8) >> @@
    91 :> <<
        (91 :> 11),
        (92 :> 1 @@ 91 :> 8 @@ 90 :> 2),
        (93 :> 1 @@ 90 :> 10),
        (92 :> 2 @@ 91 :> 7 @@ 90 :> 2),
        (94 :> 1 @@ 90 :> 10),
        (92 :> 3 @@ 90 :> 8) >> @@
    92 :> <<
        (92 :> 11),
        (93 :> 1 @@ 92 :> 8 @@ 91 :> 2),
        (94 :> 1 @@ 91 :> 10),
        (93 :> 2 @@ 92 :> 7 @@ 91 :> 2),
        (95 :> 1 @@ 91 :> 10),
        (93 :> 3 @@ 91 :> 8) >>

\* Object.entries(combination): [rating, count] pairs, integer keys ascending
Entries(obj) ==
    LET keys == SortedKeys(DOMAIN obj)
    IN  AsArray([i \in 1..Len(keys) |->
                    [rating |-> keys[i], count |-> obj[keys[i]]]])

\* obj[key] || 0
CountOf(obj, key) == IF key \in DOMAIN obj THEN obj[key] ELSE 0

\* a wrong lookup: a target outside the table gets the nearest target's list
getNearestCombinations(targetRating) ==
    table[Max2(MinTableRating, Min2(MaxTableRating, targetRating))]

getOptimalCombinations(targetRating) ==
    IF targetRating < MinTableRating \/ targetRating > MaxTableRating
    THEN <<>>
    ELSE IF targetRating \in DOMAIN table THEN table[targetRating] ELSE <<>>

\* a wrong check: one card short of the needed count still passes
CombinationNearlyPossible(combination, availableCounts) ==
    \A e \in { Entries(combination)[i] : i \in 1..Len(Entries(combination)) } :
        ~ (CountOf(availableCounts, e.rating) + 1 < e.count)

isCombinationPossible(combination, availableCounts) ==
    \A e \in { Entries(combination)[i] : i \in 1..Len(Entries(combination)) } :
        ~ (CountOf(availableCounts, e.rating) < e.count)

combinationToArray(combination) ==
    LET es == Entries(combination)
    IN  Flatten([i \in 1..Len(es) |-> Rep(es[i].rating, es[i].count)])

calculateCombinationPoints(combination) ==
    LET es == Entries(combination)
    IN  SumSeq([i \in 1..Len(es) |-> es[i].rating * es[i].count])

----------------------------------------------------------------------------
(* SolverHelper.js: counting, pricing, enumeration, validation *)

\* ratings.reduce((acc, r) => { acc[r] = (acc[r] || 0) + 1 }, {}): the object
\* the reduce ends with has one key per rating met, holding its occurrences
countRatings(ratings) ==
    AsObject([k \in { ratings[i] : i \in 1..Len(ratings) } |->
                 Cardinality({ i \in 1..Len(ratings) : ratings[i] = k })])

\* ratings.reduce((acc, curr) => acc + (priceByRating[curr] || 0), 0)
getPrice(ratings, priceByRating) ==
    SumSeq([i \in 1..Len(ratings) |-> CountOf(priceByRating, ratings[i])])

\* a wrong prepend: a is put in front once, whatever n is
prependOnce(a, xss, n) ==
    AsArray([j \in 1..Len(xss) |-> <<a>> \o xss[j]])

\* prependNTimes(a, xss, n): [...Array(n).fill(a), ...xs] for each xs of xss
prependNTimes(a, xss, n) ==
    AsArray([j \in 1..Len(xss) |-> Rep(a, n) \o xss[j]])

RECURSIVE multisubsetsImpl(_, _)
RECURSIVE multisubsetsFrom(_, _, _)
\* the for loop of multisubsetsImpl from index i on: x taken i, i+1, ... n times
multisubsetsFrom(set, n, i) ==
    IF i > n THEN <<>>
    ELSE prependNTimes(Head(set), multisubsetsImpl(Tail(set), n - i), i)
             \o multisubsetsFrom(set, n, i + 1)

\* the sequences the generator yields, in the order it yields them
multisubsetsImpl(set, n) ==
    IF n = 0 THEN << <<>> >>
    ELSE IF Len(set) > 0 THEN multisubsetsFrom(set, n, 0)
    ELSE <<>>

getMultisubsets(set, n) == multisubsetsImpl(set, n)

\* one validation message; index and value are those interpolated into it
Msg(text, index, value) == [text |-> text, index |-> index, value |-> value]

PlainMsg(text) == Msg(text, -1, 0)

RatingInRange(r) == ~ (r < MinRating \/ r > MaxRating)

\* the forEach over a ratings array: one message per bad element, in order
ElementErrors(items, text) ==
    LET bad == SelectSeq([i \in 1..Len(items) |-> i],
                         LAMBDA i : ~ RatingInRange(items[i]))
    IN  AsArray([j \in 1..Len(bad) |-> Msg(text, bad[j] - 1, items[bad[j]])])

\* a wrong validation: any squad size from 0 to 30 passes
squadSizeErrorsLoose(squadSize) ==
    IF squadSize < 0 \/ squadSize > 30
    THEN << PlainMsg("Squad size must be a number between 1 and 23") >>
    ELSE <<>>

squadSizeErrors(squadSize) ==
    IF squadSize < MinSquadSize \/ squadSize > MaxSquadSize
    THEN << PlainMsg("Squad size must be a number between 1 and 23") >>
    ELSE <<>>

\* validateInputs(params).errors; targetRating and squadSize are numbers,
\* existingRatings and availableRatings are arrays or null
validationErrors(targetRating, existingRatings, availableRatings, squadSize) ==
    (IF ~ RatingInRange(targetRating)
     THEN << PlainMsg("Target rating must be a number between 45 and 99") >>
     ELSE <<>>)
    \o (IF existingRatings.kind # "array"
        THEN << PlainMsg("Existing ratings must be an array") >>
        ELSE ElementErrors(existingRatings.items, "Invalid rating at index"))
    \o (IF availableRatings.kind # "array"
        THEN << PlainMsg("Available ratings must be an array") >>
        ELSE ElementErrors(availableRatings.items,
                           "Invalid available rating at index"))
    \o squadSizeErrors(squadSize)
    \o (IF /\ existingRatings.kind = "array"
           /\ squadSize # 0
           /\ Len(existingRatings.items) > squadSize
        THEN << PlainMsg("Existing ratings exceed squad size") >>
        ELSE <<>>)

validateInputs(targetRating, existingRatings, availableRatings, squadSize) ==
    LET errors == validationErrors(targetRating, existingRatings,
                                   availableRatings, squadSize)
    IN  [valid |-> Len(errors) = 0, errors |-> errors]

\* errors.join(', '): the messages with a separator between neighbours
JoinErrors(errors) ==
    IF Len(errors) = 0 THEN <<>>
    ELSE AsArray([k \in 1..(2 * Len(errors) - 1) |->
             IF k % 2 = 1 THEN errors[(k + 1) \div 2] ELSE PlainMsg(", ")])

----------------------------------------------------------------------------
(* Results and solutions *)

\* a/b kept as the pair it is computed from
Ratio(a, b) == [num |-> a, den |-> b]

\* one entry of a solutions list.  isOptimal is set on the fast path only and
\* combinationUsed on the exhaustive path only; FALSE and <<>> stand for a
\* property that is not there.
Solution(price, squad, actualRating, totalRatingPoints, efficiency, isOptimal, combinationUsed) ==
    [price |-> price, squad |-> squad, actualRating |-> actualRating,
     totalRatingPoints |-> totalRatingPoints, efficiency |-> efficiency,
     isOptimal |-> isOptimal, combinationUsed |-> combinationUsed]

\* {solutionsFound, solutions}, with error or message when the code sets one
Returned(hasError, error, solutionsFound, solutions, hasMessage) ==
    [kind |-> "returned", hasError |-> hasError, error |-> error,
     solutionsFound |-> solutionsFound, solutions |-> solutions,
     hasMessage |-> hasMessage]

\* the call did not return: an exception reached the caller
Threw(what) ==
    [kind |-> "threw", hasError |-> FALSE, error |-> << PlainMsg(what) >>,
     solutionsFound |-> 0, solutions |-> <<>>, hasMessage |-> FALSE]

\* the comparators handed to Array.prototype.sort
Compare(mode, a, b) ==
    CASE mode = "price" ->
            IF a.price # b.price THEN a.price - b.price
            ELSE a.totalRatingPoints - b.totalRatingPoints
      [] mode = "points" ->
            IF a.totalRatingPoints # b.totalRatingPoints
            THEN a.totalRatingPoints - b.totalRatingPoints
            ELSE a.price - b.price
      [] OTHER -> a.totalRatingPoints - b.totalRatingPoints

\* x put before the first entry it is strictly smaller than
InsertSorted(sorted, x, mode) ==
    LET before == { j \in 1..Len(sorted) : Compare(mode, x, sorted[j]) < 0 }
        at == IF before = {} THEN Len(sorted) + 1
              ELSE CHOOSE j \in before : \A k \in before : j <= k
    IN  SubSeq(sorted, 1, at - 1) \o <<x>> \o SubSeq(sorted, at, Len(sorted))

RECURSIVE SortSolutions(_, _)
\* Array.prototype.sort with a consistent comparator: the stable sorted order
SortSolutions(s, mode) ==
    IF s = <<>> THEN <<>>
    ELSE InsertSorted(SortSolutions(SubSeq(s, 1, Len(s) - 1), mode),
                      s[Len(s)], mode)

----------------------------------------------------------------------------
(* calculateSquadSolutions: the exhaustive search *)

\* a wrong loop body: the target check is one rating point too lenient
CandidateBelowTarget(combination, existing, availableCounts, targetRating, priceByRating) ==
    LET neededCounts == countRatings(combination)
        hasEnoughCards ==
            \A r \in DOMAIN neededCounts :
                ~ (CountOf(availableCounts, r) < neededCounts[r])
        fullSquad == existing \o combination
        rating == getRating(Arr(fullSquad))
        totalRatingPoints == SumSeq(fullSquad)
    IN  IF ~ hasEnoughCards THEN <<>>
        ELSE IF rating + 1 < targetRating THEN <<>>
        ELSE << Solution(getPrice(combination, priceByRating),
                         Entries(neededCounts), rating, totalRatingPoints,
                         Ratio(totalRatingPoints, Max2(rating, 1)),
                         FALSE, combination) >>

\* a wrong loop body: the stock of cards is never consulted
CandidateIgnoringStock(combination, existing, availableCounts, targetRating, priceByRating) ==
    LET fullSquad == existing \o combination
        rating == getRating(Arr(fullSquad))
        totalRatingPoints == SumSeq(fullSquad)
    IN  IF rating < targetRating THEN <<>>
        ELSE << Solution(getPrice(combination, priceByRating),
                         Entries(countRatings(combination)), rating,
                         totalRatingPoints,
                         Ratio(totalRatingPoints, Max2(rating, 1)),
                         FALSE, combination) >>

\* the body of the for loop for one yielded combination: <<>> when the
\* combination is skipped, else the one solution pushed
CandidateSolution(combination, existing, availableCounts, targetRating, priceByRating) ==
    LET neededCounts == countRatings(combination)
        hasEnoughCards ==
            \A r \in DOMAIN neededCounts :
                ~ (CountOf(availableCounts, r) < neededCounts[r])
        fullSquad == existing \o combination
        rating == getRating(Arr(fullSquad))
        ratingCounts == countRatings(combination)
        totalRatingPoints == SumSeq(fullSquad)
    IN  IF ~ hasEnoughCards THEN <<>>
        ELSE IF rating < targetRating THEN <<>>
        ELSE << Solution(getPrice(combination, priceByRating),
                         Entries(ratingCounts),
                         rating,
                         totalRatingPoints,
                         Ratio(totalRatingPoints, Max2(rating, 1)),
                         FALSE,
                         combination) >>

\* a wrong order of steps: the limit is applied before the sort
TruncateBeforeSort(solutions, MAX_SOLUTIONS_TO_TAKE, sortByPrice) ==
    SortSolutions(IF MAX_SOLUTIONS_TO_TAKE # 0 /\ MAX_SOLUTIONS_TO_TAKE > 0
                  THEN Slice0(solutions, MAX_SOLUTIONS_TO_TAKE)
                  ELSE solutions,
                  IF sortByPrice THEN "price" ELSE "points")

\* a wrong truncation: sorted, but the limit is never applied
SortWithoutTruncate(solutions, MAX_SOLUTIONS_TO_TAKE, sortByPrice) ==
    SortSolutions(solutions, IF sortByPrice THEN "price" ELSE "points")

\* lines 541-562: sort by the chosen key, then keep the first MAX entries
SortAndTruncate(solutions, MAX_SOLUTIONS_TO_TAKE, sortByPrice) ==
    LET sorted == SortSolutions(solutions,
                                IF sortByPrice THEN "price" ELSE "points")
    IN  IF MAX_SOLUTIONS_TO_TAKE # 0 /\ MAX_SOLUTIONS_TO_TAKE > 0
        THEN Slice0(sorted, MAX_SOLUTIONS_TO_TAKE)
        ELSE sorted

calculateSquadSolutions(targetRating, existingRatings, ratingsToTry, priceByRating, SQUAD_SIZE, MAX_SOLUTIONS_TO_TAKE, sortByPrice) ==
    IF targetRating > MaxRating \/ targetRating < MinRating
    THEN Returned(FALSE, <<>>, 0, <<>>, FALSE)
    ELSE IF existingRatings.kind # "array"
    THEN \* existingRatings.length throws inside the try block
         Returned(TRUE, << PlainMsg("TypeError: existingRatings.length") >>,
                  0, <<>>, FALSE)
    ELSE LET existing == existingRatings.items
             remainingSlots == SQUAD_SIZE - Len(existing)
         IN  IF remainingSlots <= 0
             THEN LET currentRating == getRating(existingRatings)
                  IN  IF currentRating >= targetRating
                      THEN Returned(FALSE, <<>>, 1,
                               << Solution(0, <<>>, currentRating,
                                           SumSeq(existing), Ratio(0, 1),
                                           FALSE, <<>>) >>,
                               FALSE)
                      ELSE Returned(FALSE, <<>>, 0, <<>>, FALSE)
             ELSE IF ratingsToTry.kind # "array"
             THEN \* ratingsToTry.reduce throws inside the try block
                  Returned(TRUE, << PlainMsg("TypeError: ratingsToTry.reduce") >>,
                           0, <<>>, FALSE)
             ELSE LET availableCounts == countRatings(ratingsToTry.items)
                      combinations ==
                          getMultisubsets(ratingsToTry.items, remainingSlots)
                      tried ==
                          AsArray([i \in 1..Len(combinations) |->
                              CandidateSolution(combinations[i], existing,
                                  availableCounts, targetRating,
                                  priceByRating)])
                      pushed == SelectSeq(tried, LAMBDA c : Len(c) = 1)
                      found == AsArray([i \in 1..Len(pushed) |-> pushed[i][1]])
                      solutions == SortAndTruncate(found,
                                       MAX_SOLUTIONS_TO_TAKE, sortByPrice)
                  IN  Returned(FALSE, <<>>, Len(solutions), solutions, FALSE)

----------------------------------------------------------------------------
(* SBCRatingCalculator.findOptimalSolutions: the fast path *)

\* the solution built for one feasible table combination
OptimalSolution(combination, targetRating, priceByRating) ==
    LET ratingArray == combinationToArray(combination)
        totalRatingPoints == calculateCombinationPoints(combination)
    IN  Solution(getPrice(ratingArray, priceByRating),
                 Entries(combination),
                 targetRating,
                 totalRatingPoints,
                 Ratio(totalRatingPoints, targetRating),
                 TRUE,
                 <<>>)

findOptimalSolutions(targetRating, availableRatingsArg, priceByRating, maxSolutionsArg) ==
    LET availableRatings == OrDefaultArr(availableRatingsArg)
        maxSolutions == OrDefaultNum(maxSolutionsArg,
                                     defaultOptimalMaxSolutions)
        optimalCombinations == getOptimalCombinations(targetRating)
    IN  IF Len(optimalCombinations) = 0
        THEN Returned(FALSE, <<>>, 0, <<>>, TRUE)
        ELSE IF availableRatings.kind # "array"
        THEN Threw("TypeError: availableRatings.reduce")
        ELSE LET availableCounts == countRatings(availableRatings.items)
                 tried == Slice0(optimalCombinations, maxSolutions)
                 kept == SelectSeq(tried,
                            LAMBDA c : isCombinationPossible(c, availableCounts))
                 solutions == AsArray([i \in 1..Len(kept) |->
                                  OptimalSolution(kept[i], targetRating,
                                                  priceByRating)])
             IN  Returned(FALSE, <<>>, Len(solutions),
                          SortSolutions(solutions, "pointsOnly"), FALSE)

----------------------------------------------------------------------------
(* SBCRatingCalculator.findSquadSolutions *)

\* a wrong calculateTeamRating: no guard, so spreading an absent roster throws
calculateTeamRatingUnguarded(ratings) ==
    IF ratings.kind # "array"
    THEN Threw("TypeError: ratings is not iterable")
    ELSE [kind |-> "number", value |-> RatingOfPadded(PadRatings(ratings.items))]

\* calculateTeamRating(ratings): SolverHelper.getRating(ratings)
calculateTeamRating(ratings) ==
    [kind |-> "number", value |-> getRating(ratings)]

\* the options object: targetRating, squadSize, sortByPrice and
\* useOptimalCombinations are always given; the arrays may be null or
\* undefined and maxSolutions may be undefined
Options(targetRating, existingRatings, availableRatings, priceByRating, squadSize, maxSolutions, sortByPrice, useOptimalCombinations) ==
    [targetRating |-> targetRating, existingRatings |-> existingRatings,
     availableRatings |-> availableRatings, priceByRating |-> priceByRating,
     squadSize |-> squadSize, maxSolutions |-> maxSolutions,
     sortByPrice |-> sortByPrice,
     useOptimalCombinations |-> useOptimalCombinations]

\* lines 301-304 of the fast-path condition, before availableRatings is read
FastPathWanted(o) ==
    /\ Len(OrDefaultArr(o.existingRatings).items) = 0
    /\ o.useOptimalCombinations
    /\ o.targetRating >= MinTableRating
    /\ o.targetRating <= MaxTableRating

\* lines 319-345: validation, then the exhaustive search
ValidateAndSearch(o) ==
    LET existingRatings == OrDefaultArr(o.existingRatings)
        availableRatings == OrDefaultArr(o.availableRatings)
        maxSolutions == OrDefaultNum(o.maxSolutions, defaultMaxSolutions)
        validation == validateInputs(o.targetRating, existingRatings,
                                     availableRatings, o.squadSize)
    IN  IF ~ validation.valid
        THEN Returned(TRUE, JoinErrors(validation.errors), 0, <<>>, FALSE)
        ELSE calculateSquadSolutions(o.targetRating, existingRatings,
                 availableRatings, o.priceByRating, o.squadSize,
                 maxSolutions, o.sortByPrice)

\* a wrong findSquadSolutions: the fast path's result is returned even when
\* it holds no solution
findSquadSolutionsKeepingEmpty(o) ==
    LET existingRatings == OrDefaultArr(o.existingRatings)
        availableRatings == OrDefaultArr(o.availableRatings)
        maxSolutions == OrDefaultNum(o.maxSolutions, defaultMaxSolutions)
    IN  IF existingRatings.kind # "array"
        THEN Threw("TypeError: existingRatings.length")
        ELSE IF FastPathWanted(o) /\ availableRatings.kind # "array"
        THEN Threw("TypeError: availableRatings.length")
        ELSE IF /\ FastPathWanted(o)
                /\ Len(availableRatings.items) > FastPathMinInventory
        THEN findOptimalSolutions(o.targetRating, availableRatings,
                 o.priceByRating, Num(maxSolutions))
        ELSE ValidateAndSearch(o)

findSquadSolutions(o) ==
    LET existingRatings == OrDefaultArr(o.existingRatings)
        availableRatings == OrDefaultArr(o.availableRatings)
        maxSolutions == OrDefaultNum(o.maxSolutions, defaultMaxSolutions)
    IN  IF existingRatings.kind # "array"
        THEN Threw("TypeError: existingRatings.length")
        ELSE IF FastPathWanted(o) /\ availableRatings.kind # "array"
        THEN Threw("TypeError: availableRatings.length")
        ELSE IF /\ FastPathWanted(o)
                /\ Len(availableRatings.items) > FastPathMinInventory
        THEN LET optimalResult ==
                     findOptimalSolutions(o.targetRating, availableRatings,
                         o.priceByRating, Num(maxSolutions))
             IN  IF optimalResult.solutionsFound > 0
                 THEN optimalResult
                 ELSE ValidateAndSearch(o)
        ELSE ValidateAndSearch(o)

\* a wrong findMostEfficientSolutions: the caller's sortByPrice is kept
findMostEfficientAsAsked(o) == findSquadSolutions(o)

\* findMostEfficientSolutions(options):
\* this.findSquadSolutions({...options, sortByPrice: false})
findMostEfficientSolutions(o) ==
    findSquadSolutions([o EXCEPT !.sortByPrice = FALSE])

----------------------------------------------------------------------------
(* What a call leaves in the objects it was handed *)

\* a wrong getRating: the zeros are pushed onto the roster it was handed
getRatingPadsArgument(ratings) ==
    IF ratings.kind # "array" \/ Len(ratings.items) = 0 THEN ratings
    ELSE Arr(PadRatings(ratings.items))

\* the roster handed to getRating, after the call: line 45 spreads it into a
\* new array, paddedRatings, and the zeros are pushed onto that one
getRatingLeaves(ratings) == ratings

\* the table after findOptimalSolutions: the row is read through
\* slice(0, maxSolutions), a copy, and the sort of line 270 is applied to
\* the local array of solutions
TableAfterOptimal(targetRating) == table

\* existingRatings after calculateSquadSolutions: a full roster is handed to
\* getRating itself; otherwise it is only spread into fullSquad
ExistingAfterSearch(targetRating, existingRatings, SQUAD_SIZE) ==
    IF targetRating > MaxRating \/ targetRating < MinRating
    THEN existingRatings
    ELSE IF existingRatings.kind # "array" THEN existingRatings
    ELSE IF SQUAD_SIZE - Len(existingRatings.items) <= 0
    THEN getRatingLeaves(existingRatings)
    ELSE existingRatings

\* whether findSquadSolutions(o) calls findOptimalSolutions
CallsFastPath(o) ==
    /\ OrDefaultArr(o.existingRatings).kind = "array"
    /\ FastPathWanted(o)
    /\ OrDefaultArr(o.availableRatings).kind = "array"
    /\ Len(OrDefaultArr(o.availableRatings).items) > FastPathMinInventory

\* whether findSquadSolutions(o) calls calculateSquadSolutions
CallsSearch(o) ==
    LET existingRatings == OrDefaultArr(o.existingRatings)
        availableRatings == OrDefaultArr(o.availableRatings)
        maxSolutions == OrDefaultNum(o.maxSolutions, defaultMaxSolutions)
    IN  /\ existingRatings.kind = "array"
        /\ ~ (FastPathWanted(o) /\ availableRatings.kind # "array")
        /\ CallsFastPath(o) =>
               findOptimalSolutions(o.targetRating, availableRatings,
                   o.priceByRating, Num(maxSolutions)).solutionsFound = 0
        /\ validateInputs(o.targetRating, existingRatings, availableRatings,
                          o.squadSize).valid

\* the options object after findSquadSolutions(o): a default [] stands in
\* for an existingRatings left undefined, and the caller's own array reaches
\* calculateSquadSolutions otherwise; availableRatings and priceByRating are
\* read by reduce, by a destructuring and by key
OptionsAfterSquadSolutions(o) ==
    IF CallsSearch(o) /\ o.existingRatings.kind = "array"
    THEN [o EXCEPT !.existingRatings =
              ExistingAfterSearch(o.targetRating, o.existingRatings,
                                  o.squadSize)]
    ELSE o

\* the table after findSquadSolutions(o)
TableAfterSquadSolutions(o) ==
    IF CallsFastPath(o) THEN TableAfterOptimal(o.targetRating) ELSE table

----------------------------------------------------------------------------
(* The calls *)

NoCall == [op |-> "none"]

\* no object of a caller is under consideration
NoObjects == [op |-> "none"]

NoResult == [kind |-> "none"]

\* a roster of at most eleven followed by zeros up to eleven entries
ZeroPadded(roster) == roster \o Rep(0, SquadCapacity - Len(roster))

\* rosters given to calculateTeamRating: the documented examples and others
ShortRosters ==
    { <<r>> : r \in {45, 60, 63, 70, 75, 85, 87, 99} }
    \cup { <<87, 87>>, <<85, 85>>, <<90, 90>>,
           <<85, 86, 87, 96>>,
           <<95, 92, 94, 93, 93, 93, 92>>,
           <<85, 87, 83, 86, 84>>,
           <<85, 87, 83, 86, 84, 88, 82, 85, 86, 84, 87>>,
           Rep(83, 9) \o Rep(82, 2),
           <<>> }
    \cup { Rep(v, SquadCapacity) : v \in MinRating..MaxRating }
    \cup { Rep(v, n) : v \in {45, 83, 99}, n \in 1..10 }

\* rosters of up to eleven members of two ratings, low ones first
MixedRosters ==
    { Rep(a, n) \o Rep(b, m) :
          a \in {45, 82, 90}, b \in {83, 84, 99}, n \in 0..6, m \in 0..5 }

\* the same rosters, and each of them with its empty slots written as zeros
TeamRatingRosters ==
    ShortRosters \cup { ZeroPadded(r) : r \in ShortRosters }
        \cup MixedRosters

TeamRatingInputs ==
    { Arr(s) : s \in TeamRatingRosters } \cup {Null, Undefined}

\* all sequences over S of length at most n
SeqsUpTo(S, n) == UNION { [1..k -> S] : k \in 0..n }

\* the price maps of the calls: the test suite's (index.test.js line 85) and
\* one in which the better card is the cheaper one
TestPrices == (81 :> 500 @@ 82 :> 800 @@ 83 :> 1000 @@ 84 :> 2000)

InvertedPrices == (80 :> 2000 @@ 83 :> 1000 @@ 84 :> 500)

PriceChoices == {TestPrices, InvertedPrices}

MaxSolutionsChoices == {NoNum} \cup { Num(n) : n \in 0..MaxMaxSolutions }

\* short raw inventories, duplicates and all
SmallInventories == SeqsUpTo({80, 84}, MaxAvailLen)

\* c[-1], c[0], c[1] copies of the ratings just below, at and just above t
Stacks(t, c) == Rep(t - 1, c[-1]) \o Rep(t, c[0]) \o Rep(t + 1, c[1])

\* none or plenty of the two lower ratings, none to four of the upper one
StackCounts ==
    { c \in [{-1, 0, 1} -> {0, 2, 3, 4, 11}] :
          c[-1] \in {0, 11} /\ c[0] \in {0, 11} /\ c[1] \in {0, 2, 3, 4} }

\* a club inventory: stacks around the target rating
ClubInventories(t) == { Stacks(t, c) : c \in StackCounts }

\* a club inventory over the fast-path threshold: 51 more cards of one rating
BigInventories(t) ==
    { inv \o Rep(f, FastPathMinInventory + 1) :
          inv \in ClubInventories(t), f \in {75, 100} }

\* the inventory of the documented fast-path example (index.test.js lines
\* 75-80): 15 of 83, 10 of 82, 50 of 81 and 25 of 84, in that order
DocumentedInventory ==
    Rep(83, 15) \o Rep(82, 10) \o Rep(81, 50) \o Rep(84, 25)

\* the inventories given to findOptimalSolutions for target t
FastPathInventories(t) ==
    ClubInventories(t) \cup (IF t = 83 THEN {DocumentedInventory} ELSE {})

\* the limits given to findOptimalSolutions: the test suite's 5 as well
FastPathMaxSolutions == MaxSolutionsChoices \cup {Num(TestMaxSolutions)}

ExistingChoices ==
    {Undefined, Null, Arr(<<99, 99, 99>>), Arr(Rep(83, 9))}

\* calls with a short inventory
SmallOptions ==
    { Options(t, e, a, p, s, m, b, TRUE) :
          t \in {45, 83, 100},
          e \in ExistingChoices,
          a \in { Arr(inv) : inv \in SmallInventories } \cup {Null},
          p \in PriceChoices,
          s \in {0, 3, 11, 24},
          m \in MaxSolutionsChoices,
          b \in BOOLEAN }

\* calls with an inventory over the fast-path threshold and nothing placed
BigOptions ==
    UNION { { Options(t, Arr(<<>>), Arr(inv), p, s, m, b, u) :
                  inv \in BigInventories(t),
                  p \in {TestPrices},
                  s \in {1, 11, 24},
                  m \in MaxSolutionsChoices,
                  b \in BOOLEAN,
                  u \in BOOLEAN } :
            t \in {80, 83, 84} }

\* whether the call goes on to enumerate, and over how many slots
ReachesEnumeration(o) ==
    LET e == OrDefaultArr(o.existingRatings)
        a == OrDefaultArr(o.availableRatings)
    IN  /\ e.kind = "array"
        /\ a.kind = "array"
        /\ validateInputs(o.targetRating, e, a, o.squadSize).valid
        /\ o.squadSize - Len(e.items) > 0

\* the calls explored: those that enumerate do so over a short raw list; a
\* long inventory is answered by the fast path or rejected by the validation
Affordable(o) ==
    ReachesEnumeration(o) =>
        \/ Len(OrDefaultArr(o.availableRatings).items) <= MaxAvailLen
        \/ /\ FastPathWanted(o)
           /\ findOptimalSolutions(o.targetRating, o.availableRatings,
                  o.priceByRating,
                  Num(OrDefaultNum(o.maxSolutions, defaultMaxSolutions))
              ).solutionsFound > 0

Init ==
    /\ pc = "idle"
    /\ call = NoCall
    /\ result = NoResult
    /\ table = OPTIMAL_SBC_COMBINATIONS
    /\ caller = NoObjects

\* SBCRatingCalculator.calculateTeamRating(ratings)
CalculateTeamRating ==
    /\ pc = "idle"
    /\ \E ratings \in TeamRatingInputs :
          /\ call' = [op |-> "calculateTeamRating", ratings |-> ratings]
          /\ result' = calculateTeamRating(ratings)
          /\ caller' = [ratings |-> getRatingLeaves(ratings)]
    /\ pc' = "done"
    /\ UNCHANGED table

\* SBCRatingCalculator.findOptimalSolutions(options)
FindOptimalSolutions ==
    /\ pc = "idle"
    /\ \E t \in (MinTableRating - 1)..(MaxTableRating + 1),
          p \in PriceChoices, m \in FastPathMaxSolutions :
          \E a \in { Arr(inv) : inv \in FastPathInventories(t) }
                       \cup {Null, Undefined} :
             /\ call' = [op |-> "findOptimalSolutions",
                         options |-> Options(t, Undefined, a, p,
                                         defaultSquadSize, m, TRUE, TRUE)]
             /\ result' = findOptimalSolutions(t, a, p, m)
             /\ caller' = [options |-> Options(t, Undefined, a, p,
                                           defaultSquadSize, m, TRUE, TRUE)]
             /\ table' = TableAfterOptimal(t)
    /\ pc' = "done"

\* SBCRatingCalculator.findSquadSolutions(options)
FindSquadSolutions ==
    /\ pc = "idle"
    /\ \E o \in SmallOptions \cup BigOptions :
          /\ Affordable(o)
          /\ call' = [op |-> "findSquadSolutions", options |-> o]
          /\ result' = findSquadSolutions(o)
          /\ caller' = [options |-> OptionsAfterSquadSolutions(o)]
          /\ table' = TableAfterSquadSolutions(o)
    /\ pc' = "done"

\* the options of direct calculateSquadSolutions calls: those of the short
\* inventories, and the same with a target just under the accepted range
DirectOptions ==
    SmallOptions \cup
        { [o EXCEPT !.targetRating = MinRating - 1] :
              o \in { p \in SmallOptions : p.targetRating = MinRating } }

\* calculateSquadSolutions(solverOptions, SQUAD_SIZE, MAX_SOLUTIONS_TO_TAKE,
\* sortByPrice), called directly: nothing validates its arguments. The squads
\* explored are of at most eleven cards, which bounds the enumeration.
CalculateSquadSolutions ==
    /\ pc = "idle"
    /\ \E o \in DirectOptions :
          /\ o.maxSolutions.kind = "number"
          /\ o.existingRatings.kind # "undefined"
          /\ o.squadSize <= SquadCapacity
          /\ call' = [op |-> "calculateSquadSolutions", options |-> o]
          /\ result' = calculateSquadSolutions(o.targetRating,
                           o.existingRatings, o.availableRatings,
                           o.priceByRating, o.squadSize,
                           o.maxSolutions.value, o.sortByPrice)
          /\ caller' = [options |->
                 [o EXCEPT !.existingRatings =
                      ExistingAfterSearch(o.targetRating, o.existingRatings,
                                          o.squadSize)]]
    /\ pc' = "done"
    /\ UNCHANGED table

\* SBCRatingCalculator.findMostEfficientSolutions(options), on the options of
\* findSquadSolutions that leave maxSolutions out or set it to 1
FindMostEfficientSolutions ==
    /\ pc = "idle"
    /\ \E o \in SmallOptions \cup BigOptions :
          /\ Affordable(o)
          /\ o.maxSolutions \in {NoNum, Num(1)}
          /\ call' = [op |-> "findMostEfficientSolutions", options |-> o]
          /\ result' = findMostEfficientSolutions(o)
          /\ LET spread == [o EXCEPT !.sortByPrice = FALSE]
             IN  /\ caller' =
                        [options |->
                            [o EXCEPT !.existingRatings =
                                 OptionsAfterSquadSolutions(spread)
                                     .existingRatings]]
                 /\ table' = TableAfterSquadSolutions(spread)
    /\ pc' = "done"

\* the values the alphabets of direct getMultisubsets calls are made of
AlphabetValues == {80, 82, 84}

\* SolverHelper.getMultisubsets(set, n), the generator run to its end
GetMultisubsets ==
    /\ pc = "idle"
    /\ \E set \in SeqsUpTo(AlphabetValues, MaxAlphabetLen),
          n \in 0..MaxSubsetSize :
          /\ call' = [op |-> "getMultisubsets", set |-> set, n |-> n]
          /\ result' = [kind |-> "list", value |-> getMultisubsets(set, n)]
          /\ caller' = [set |-> set]
    /\ pc' = "done"
    /\ UNCHANGED table

\* the parameters given to validateInputs directly: in range, on the edges of
\* the ranges and outside them, arrays with and without bad elements
ValidationParams ==
    [ targetRating : {MinRating - 1, MinRating, MaxRating, MaxRating + 1},
      existingRatings : {Null, Undefined, Arr(<<>>), Arr(<<99, 99, 99>>),
                         Arr(<<44, 85, 100>>)},
      availableRatings : {Null, Arr(<<>>), Arr(<<80, 84>>),
                          Arr(<<100, 84, 0>>)},
      squadSize : {-1, 0, MinSquadSize, 2, 3, MaxSquadSize, MaxSquadSize + 1} ]

\* SolverHelper.validateInputs(params)
ValidateInputs ==
    /\ pc = "idle"
    /\ \E params \in ValidationParams :
          /\ call' = [op |-> "validateInputs", params |-> params]
          /\ result' =
                 LET v == validateInputs(params.targetRating,
                              params.existingRatings,
                              params.availableRatings, params.squadSize)
                 IN  [kind |-> "validation", valid |-> v.valid,
                      errors |-> v.errors]
          /\ caller' = [params |-> params]
    /\ pc' = "done"
    /\ UNCHANGED table

\* the caller takes the outcome; the library keeps nothing of the call
Return ==
    /\ pc = "done"
    /\ pc' = "idle"
    /\ call' = NoCall
    /\ result' = NoResult
    /\ caller' = NoObjects
    /\ UNCHANGED table

Next ==
    \/ CalculateTeamRating
    \/ FindOptimalSolutions
    \/ FindSquadSolutions
    \/ CalculateSquadSolutions
    \/ FindMostEfficientSolutions
    \/ GetMultisubsets
    \/ ValidateInputs
    \/ Return

Spec == Init /\ [][Next]_vars

----------------------------------------------------------------------------
(* Vocabulary of the properties *)

Done(op) == pc = "done" /\ call.op = op

\* the roster a squad describes: count copies of each group's rating
ExpandSquad(squad) ==
    Flatten([i \in 1..Len(squad) |-> Rep(squad[i].rating, squad[i].count)])

\* how often r occurs in a list
Occurrences(list, r) == Cardinality({ i \in 1..Len(list) : list[i] = r })

\* the {rating: count} object a squad's groups spell out
SquadAsObject(squad) ==
    [r \in { squad[i].rating : i \in 1..Len(squad) } |->
        LET i == CHOOSE j \in 1..Len(squad) : squad[j].rating = r
        IN  squad[i].count]

RECURSIVE SumOver(_, _)
\* the sum of f[x] over the x of S
SumOver(S, f) ==
    IF S = {} THEN 0
    ELSE LET x == CHOOSE y \in S : TRUE
         IN  f[x] + SumOver(S \ {x}, f)

\* the arguments of the current call as the code sees them after defaults
CallExisting == OrDefaultArr(call.options.existingRatings)

CallAvailable == OrDefaultArr(call.options.availableRatings)

CallRemainingSlots == call.options.squadSize - Len(CallExisting.items)

SolutionsOf(r) == { r.solutions[i] : i \in 1..Len(r.solutions) }

----------------------------------------------------------------------------
(* C1 *)

\* C1: every solution returned by calculateSquadSolutions for a target in
\* [45,99] and at least one slot to fill reports as actualRating the rating of
\* the existing ratings followed by the roster its squad groups describe, and
\* that rating is at least the target.
ExhaustiveSoundness ==
    ( /\ Done("calculateSquadSolutions")
      /\ call.options.targetRating \in MinRating..MaxRating
      /\ CallExisting.kind = "array"
      /\ CallRemainingSlots > 0 )
    => \A sol \in SolutionsOf(result) :
          /\ sol.actualRating =
                getRating(Arr(CallExisting.items \o ExpandSquad(sol.squad)))
          /\ sol.actualRating >= call.options.targetRating

\* a search that fills two slots and returns two or more different fills
ExhaustiveSoundnessWitness ==
    /\ Done("calculateSquadSolutions")
    /\ call.options.targetRating = 83
    /\ CallRemainingSlots = 2
    /\ \E s1, s2 \in SolutionsOf(result) : s1.squad # s2.squad

----------------------------------------------------------------------------
(* C2 *)

\* C2: every solution returned by findOptimalSolutions for a target in
\* [80,92] reports as actualRating the rating of the 11 ratings its squad
\* groups expand to, and that rating is at least the target.
FastPathSoundness ==
    ( /\ Done("findOptimalSolutions")
      /\ call.options.targetRating \in MinTableRating..MaxTableRating
      /\ result.kind = "returned" )
    => \A sol \in SolutionsOf(result) :
          /\ sol.actualRating = getRating(Arr(ExpandSquad(sol.squad)))
          /\ getRating(Arr(ExpandSquad(sol.squad)))
                >= call.options.targetRating

----------------------------------------------------------------------------
(* C3 *)

\* C3: no solution returned by calculateSquadSolutions or findSquadSolutions
\* needs more copies of a rating than availableRatings holds.
Feasibility ==
    ( /\ Done("calculateSquadSolutions") \/ Done("findSquadSolutions")
      /\ result.kind = "returned" )
    => \A sol \in SolutionsOf(result) :
          \A i \in 1..Len(sol.squad) :
             sol.squad[i].count
                <= Occurrences(CallAvailable.items, sol.squad[i].rating)

\* two slots, one 80 and one 84 in stock: the fill 84+84 reaches the target
\* but is not in stock, and only 80+84 is returned
FeasibilityWitness ==
    /\ Done("calculateSquadSolutions")
    /\ call.options.targetRating = 83
    /\ CallExisting = Arr(Rep(83, 9))
    /\ call.options.squadSize = 11
    /\ CallAvailable = Arr(<<80, 84>>)
    /\ result.solutionsFound = 1
    /\ result.solutions[1].squad =
          << [rating |-> 80, count |-> 1], [rating |-> 84, count |-> 1] >>

----------------------------------------------------------------------------
(* C4 *)

\* the rosters whose rating the tests and the documentation state
DocumentedRatings ==
    { << <<45>>, 7 >>, << <<60>>, 10 >>, << <<63>>, 10 >>, << <<70>>, 12 >>,
      << <<75>>, 13 >>, << <<85>>, 14 >>, << <<87>>, 15 >>, << <<99>>, 17 >>,
      << <<87, 87>>, 28 >>, << <<85, 85>>, 28 >>, << <<90, 90>>, 29 >>,
      << <<85, 86, 87, 96>>, 52 >>,
      << <<95, 92, 94, 93, 93, 93, 92>>, 80 >>,
      << <<85, 87, 83, 86, 84>>, 59 >>,
      << <<85, 87, 83, 86, 84, 88, 82, 85, 86, 84, 87>>, 85 >>,
      << Rep(83, 9) \o Rep(82, 2), 83 >> }

\* C4: calculateTeamRating gives each documented roster its documented
\* rating.
DocumentedRatingValues ==
    Done("calculateTeamRating")
    => \A d \in DocumentedRatings :
          call.ratings = Arr(d[1]) => result.value = d[2]

\* the four-member example has been rated 52
DocumentedRatingWitness ==
    /\ Done("calculateTeamRating")
    /\ call.ratings = Arr(<<85, 86, 87, 96>>)
    /\ result.value = 52

----------------------------------------------------------------------------
(* C5 *)

\* the order the sortByPrice option asks for, between neighbours a then b
InAskedOrder(a, b, sortByPrice) ==
    IF sortByPrice
    THEN \/ a.price < b.price
         \/ a.price = b.price /\ a.totalRatingPoints <= b.totalRatingPoints
    ELSE \/ a.totalRatingPoints < b.totalRatingPoints
         \/ a.totalRatingPoints = b.totalRatingPoints /\ a.price <= b.price

\* C5: the solutions findSquadSolutions returns are ordered by price, then
\* by total rating points, when sortByPrice is true, and by total rating
\* points, then by price, when it is false, whichever path answered.
SortedOutput ==
    (Done("findSquadSolutions") /\ result.kind = "returned")
    => \A i \in 1..(Len(result.solutions) - 1) :
          InAskedOrder(result.solutions[i], result.solutions[i + 1],
                       call.options.sortByPrice)

----------------------------------------------------------------------------
(* C6 *)

CallMaxSolutions == call.options.maxSolutions

SolverOps ==
    {"findSquadSolutions", "calculateSquadSolutions", "findOptimalSolutions"}

----------------------------------------------------------------------------
(* C7 *)

CallValidation ==
    validateInputs(call.options.targetRating, CallExisting, CallAvailable,
                   call.options.squadSize)

\* C7: a findSquadSolutions call whose arguments fail validation returns the
\* joined validation messages as its error and no solutions.
ValidationGate ==
    ( /\ Done("findSquadSolutions")
      /\ result.kind = "returned"
      /\ ~ CallValidation.valid )
    => /\ result.hasError
       /\ result.error = JoinErrors(CallValidation.errors)
       /\ result.solutionsFound = 0
       /\ result.solutions = <<>>

----------------------------------------------------------------------------
(* C8 *)

\* C8: every findSquadSolutions call returns a result object; no failure
\* reaches the caller.
NoFailureEscapes ==
    Done("findSquadSolutions") => result.kind = "returned"

----------------------------------------------------------------------------
(* C9 *)

\* the table positions findOptimalSolutions may answer from: among the first
\* maxSolutions entries, those the inventory covers
FeasiblePositions(combos, limit, inventory) ==
    { i \in 1..Min2(limit, Len(combos)) :
         \A r \in DOMAIN combos[i] :
            Occurrences(inventory, r) >= combos[i][r] }

PriceOrZero(priceByRating) ==
    [r \in MinRating..(MaxRating + 1) |->
        IF r \in DOMAIN priceByRating THEN priceByRating[r] ELSE 0]

\* C9: for a target with table entries, findOptimalSolutions returns one
\* solution for each feasible combination among the first maxSolutions of the
\* table and no other, each with totalRatingPoints the sum of rating * count
\* and price the sum of the known prices of its cards.
FastPathFilter ==
    ( /\ Done("findOptimalSolutions")
      /\ call.options.targetRating \in MinTableRating..MaxTableRating
      /\ CallAvailable.kind = "array" )
    => LET combos == table[call.options.targetRating]
           limit == OrDefaultNum(CallMaxSolutions, defaultOptimalMaxSolutions)
           feasible == FeasiblePositions(combos, limit, CallAvailable.items)
           prices == PriceOrZero(call.options.priceByRating)
       IN  /\ result.kind = "returned"
           /\ Len(result.solutions) = Cardinality(feasible)
           /\ \A i \in feasible :
                 \E sol \in SolutionsOf(result) :
                    SquadAsObject(sol.squad) = combos[i]
           /\ \A sol \in SolutionsOf(result) :
                 \E i \in feasible :
                    /\ SquadAsObject(sol.squad) = combos[i]
                    /\ sol.totalRatingPoints =
                          SumOver(DOMAIN combos[i],
                                  [r \in DOMAIN combos[i] |-> r * combos[i][r]])
                    /\ sol.price =
                          SumOver(DOMAIN combos[i],
                                  [r \in DOMAIN combos[i] |->
                                      prices[r] * combos[i][r]])

\* a limit of 2 under which one of the first two combinations is in stock and
\* the other is not
FastPathFilterWitness ==
    /\ Done("findOptimalSolutions")
    /\ call.options.targetRating \in MinTableRating..MaxTableRating
    /\ CallMaxSolutions = Num(2)
    /\ CallAvailable.kind = "array"
    /\ result.solutionsFound = 1

----------------------------------------------------------------------------
(* C10 *)

\* the table positions kept by a fast-path call, in table order
KeptPositions ==
    LET combos == table[call.options.targetRating]
        limit == OrDefaultNum(CallMaxSolutions, defaultOptimalMaxSolutions)
    IN  SortedKeys(FeasiblePositions(combos, limit, CallAvailable.items))

\* C10: the table's list for every target is in non-decreasing order of total
\* rating points, so the solutions of findOptimalSolutions come out in the
\* order the table lists their combinations.
TableOrdered ==
    ( /\ Done("findOptimalSolutions")
      /\ call.options.targetRating \in MinTableRating..MaxTableRating
      /\ CallAvailable.kind = "array" )
    => LET combos == table[call.options.targetRating]
       IN  /\ \A i \in 1..(Len(combos) - 1) :
                 calculateCombinationPoints(combos[i])
                    <= calculateCombinationPoints(combos[i + 1])
           /\ Len(result.solutions) = Len(KeptPositions)
           /\ \A j \in 1..Len(result.solutions) :
                 SquadAsObject(result.solutions[j].squad)
                    = combos[KeptPositions[j]]

----------------------------------------------------------------------------
(* C11 *)

\* the documented fast-path example, maxSolutions left out or set to 5
DocumentedExampleCall ==
    /\ Done("findOptimalSolutions")
    /\ call.options.targetRating = 83
    /\ call.options.availableRatings = Arr(DocumentedInventory)
    /\ call.options.priceByRating = TestPrices
    /\ call.options.maxSolutions \in {NoNum, Num(TestMaxSolutions)}

\* C11: the documented example, with maxSolutions left at its default and
\* with maxSolutions 5, returns at least one solution, and the first one has
\* actualRating 83 and totalRatingPoints 910.
DocumentedFastPathExample ==
    DocumentedExampleCall
    => /\ result.kind = "returned"
       /\ result.solutionsFound >= 1
       /\ Len(result.solutions) >= 1
       /\ result.solutions[1].actualRating = 83
       /\ result.solutions[1].totalRatingPoints = 910

----------------------------------------------------------------------------
(* C12 *)

RECURSIVE Binomial(_, _)
\* C(n, k) by Pascal's rule
Binomial(n, k) ==
    IF k < 0 \/ k > n THEN 0
    ELSE IF k = 0 \/ k = n THEN 1
    ELSE Binomial(n - 1, k - 1) + Binomial(n - 1, k)

\* the values of a list
Values(list) == { list[i] : i \in 1..Len(list) }

\* a list without repeated values
PairwiseDistinct(list) == Cardinality(Values(list)) = Len(list)

\* how many multisets of size k an alphabet of d distinct values has
MultisetCount(d, k) ==
    IF k = 0 THEN 1 ELSE IF d = 0 THEN 0 ELSE Binomial(d + k - 1, k)

\* C12: for an alphabet of d pairwise distinct values and a size k,
\* getMultisubsets yields C(d+k-1, k) sequences (one empty sequence for
\* k = 0, none for d = 0 and k > 0), each of length k over the alphabet, no
\* two of them equal as multisets.
EnumeratorComplete ==
    ( Done("getMultisubsets") /\ PairwiseDistinct(call.set) )
    => LET yielded == result.value
       IN  /\ Len(yielded) = MultisetCount(Len(call.set), call.n)
           /\ \A i \in 1..Len(yielded) :
                  /\ Len(yielded[i]) = call.n
                  /\ Values(yielded[i]) \subseteq Values(call.set)
           /\ \A i, j \in 1..Len(yielded) :
                  i # j => countRatings(yielded[i]) # countRatings(yielded[j])

\* three distinct values, size 2: the six multisets have been yielded
EnumeratorWitness ==
    /\ Done("getMultisubsets")
    /\ call.set = <<84, 80, 82>>
    /\ call.n = 2
    /\ Len(result.value) = 6
    /\ <<84, 84>> \in Values(result.value)
    /\ <<80, 82>> \in Values(result.value)

----------------------------------------------------------------------------
(* C13 *)

\* C13: for every rating V in [45,99], the rating of 11 copies of V is V.
UniformFullRoster ==
    \A v \in MinRating..MaxRating :
        ( /\ Done("calculateTeamRating")
          /\ call.ratings = Arr(Rep(v, SquadCapacity)) )
        => result.value = v

\* eleven 75s have been rated 75
UniformFullRosterWitness ==
    /\ Done("calculateTeamRating")
    /\ call.ratings = Arr(Rep(75, SquadCapacity))
    /\ result.value = 75

----------------------------------------------------------------------------
(* C14 *)

\* C14: the rating of a roster of 0 to 11 ratings equals the rating of that
\* roster extended with zeros to length 11.
PaddingIdempotent ==
    ( /\ Done("calculateTeamRating")
      /\ call.ratings.kind = "array"
      /\ Len(call.ratings.items) <= SquadCapacity )
    => result.value = getRating(Arr(ZeroPadded(call.ratings.items)))

\* a roster of five has been rated 59, as its zero-padded form is
PaddingIdempotentWitness ==
    /\ Done("calculateTeamRating")
    /\ call.ratings = Arr(<<85, 87, 83, 86, 84>>)
    /\ result.value = 59
    /\ getRating(Arr(<<85, 87, 83, 86, 84, 0, 0, 0, 0, 0, 0>>)) = 59

----------------------------------------------------------------------------
(* C15 *)

\* C15: calculateTeamRating returns 0 for an empty roster and for an absent
\* one (null or undefined), and does not fail on them.
AbsentRosterRatesZero ==
    ( /\ Done("calculateTeamRating")
      /\ \/ call.ratings.kind \in {"null", "undefined"}
         \/ call.ratings = Arr(<<>>) )
    => /\ result.kind = "number"
       /\ result.value = 0

\* a null roster has been rated 0
AbsentRosterWitness ==
    /\ Done("calculateTeamRating")
    /\ call.ratings = Null
    /\ result = [kind |-> "number", value |-> 0]

----------------------------------------------------------------------------
(* C16 *)

RECURSIVE FillsFrom(_, _, _)
\* the rosters of k cards that can be drawn from a stock: vals lists the
\* distinct ratings in stock, stock[v] is how many cards of rating v there are
FillsFrom(vals, stock, k) ==
    IF Len(vals) = 0 THEN (IF k = 0 THEN { <<>> } ELSE {})
    ELSE UNION { { Rep(Head(vals), n) \o rest :
                     rest \in FillsFrom(Tail(vals), stock, k - n) } :
                 n \in 0..Min2(stock[Head(vals)], k) }

\* the fills of the current call: k cards out of availableRatings
FeasibleFills(k) ==
    IF k < 0 THEN {}
    ELSE FillsFrom(SortedKeys(Values(CallAvailable.items)),
                   [v \in Values(CallAvailable.items) |->
                       Occurrences(CallAvailable.items, v)],
                   k)

\* some feasible fill of the remaining slots brings the roster to the target
TargetReachable ==
    \E fill \in FeasibleFills(CallRemainingSlots) :
        getRating(Arr(CallExisting.items \o fill)) >= call.options.targetRating

\* the empty result: no solutions and no error
EmptyResult ==
    /\ result.kind = "returned"
    /\ result.solutionsFound = 0
    /\ result.solutions = <<>>
    /\ ~ result.hasError

\* C16: a valid findSquadSolutions or calculateSquadSolutions call in which
\* no feasible fill of the remaining slots reaches the target, and a
\* calculateSquadSolutions call with a target outside [45,99], return no
\* solutions and no error.  (Stated on the calls whose result is anything
\* else: they must have a reachable target and, if direct, a target in range.)
UnreachableIsEmpty ==
    ( /\ pc = "done"
      /\ call.op \in {"findSquadSolutions", "calculateSquadSolutions"}
      /\ ~ EmptyResult )
    => /\ call.op = "calculateSquadSolutions"
          => call.options.targetRating \in MinRating..MaxRating
       /\ CallValidation.valid => TargetReachable

----------------------------------------------------------------------------
(* C17 *)

\* C17: for a target outside [80,92] getOptimalCombinations gives the empty
\* list, and findOptimalSolutions returns no solutions, a message and no
\* error, whatever the inventory is (absent ones included).
NoTableEntries ==
    ( /\ Done("findOptimalSolutions")
      /\ call.options.targetRating \notin MinTableRating..MaxTableRating )
    => /\ getOptimalCombinations(call.options.targetRating) = <<>>
       /\ result.kind = "returned"
       /\ result.solutionsFound = 0
       /\ result.solutions = <<>>
       /\ result.hasMessage
       /\ ~ result.hasError

\* target 93 with a stocked inventory: the message and nothing else
NoTableEntriesWitness ==
    /\ Done("findOptimalSolutions")
    /\ call.options.targetRating = MaxTableRating + 1
    /\ CallAvailable.kind = "array"
    /\ Len(CallAvailable.items) >= SquadCapacity
    /\ result.hasMessage
    /\ result.solutionsFound = 0

----------------------------------------------------------------------------
(* C18 *)

\* the one message a failed check of a number gives, none if it passed
MessageIf(failed, text) == IF failed THEN { PlainMsg(text) } ELSE {}

\* the messages an array argument calls for: one if it is no array, else one
\* for each element outside [45,99]
ArrayMessages(arg, notArrayText, elementText) ==
    IF arg.kind # "array" THEN { PlainMsg(notArrayText) }
    ELSE { Msg(elementText, i - 1, arg.items[i]) :
             i \in { j \in 1..Len(arg.items) :
                        arg.items[j] \notin MinRating..MaxRating } }

\* every message the failed checks of the current validateInputs call ask for
ExpectedMessages ==
    LET p == call.params
    IN  MessageIf(p.targetRating \notin MinRating..MaxRating,
                  "Target rating must be a number between 45 and 99")
        \cup ArrayMessages(p.existingRatings,
                  "Existing ratings must be an array",
                  "Invalid rating at index")
        \cup ArrayMessages(p.availableRatings,
                  "Available ratings must be an array",
                  "Invalid available rating at index")
        \cup MessageIf(p.squadSize \notin MinSquadSize..MaxSquadSize,
                  "Squad size must be a number between 1 and 23")
        \cup MessageIf(/\ p.existingRatings.kind = "array"
                       /\ Len(p.existingRatings.items) > p.squadSize,
                  "Existing ratings exceed squad size")

\* C18: validateInputs reports every failed check: errors holds exactly one
\* message for each failed check (target, each bad element or the non-array
\* of existingRatings and of availableRatings, squadSize, existingRatings
\* longer than squadSize), and valid is true iff errors is empty.
ValidationCollectsAll ==
    Done("validateInputs")
    => /\ Values(result.errors) = ExpectedMessages
       /\ Len(result.errors) = Cardinality(ExpectedMessages)
       /\ result.valid <=> (Len(result.errors) = 0)

----------------------------------------------------------------------------
(* C19 *)

\* C19: findMostEfficientSolutions(options) returns what findSquadSolutions
\* returns for the same options with sortByPrice false, whatever sortByPrice
\* the options carry; a failure of the one is a failure of the other.
MostEfficientIsUnpricedSearch ==
    Done("findMostEfficientSolutions")
    => result = findSquadSolutions([call.options EXCEPT !.sortByPrice = FALSE])

\* options asking for the price order, answered in the points order, which
\* is a different one here
MostEfficientWitness ==
    /\ Done("findMostEfficientSolutions")
    /\ call.options.sortByPrice
    /\ result.kind = "returned"
    /\ result.solutionsFound >= 2
    /\ result.solutions[1].totalRatingPoints
           < result.solutions[result.solutionsFound].totalRatingPoints
    /\ result # findSquadSolutions(call.options)

----------------------------------------------------------------------------
(* C20 *)

\* the four calls of the calculator
CalculatorOps ==
    {"calculateTeamRating", "findOptimalSolutions", "findSquadSolutions",
     "findMostEfficientSolutions"}

\* the objects the caller handed to the call, as they were handed
HandedObjects ==
    IF call.op = "calculateTeamRating"
    THEN [ratings |-> call.ratings]
    ELSE [options |-> call.options]

\* the outcome of the call computed from its arguments alone
OutcomeFromArguments ==
    LET o == call.options
    IN  CASE call.op = "calculateTeamRating" ->
                 calculateTeamRating(call.ratings)
          [] call.op = "findOptimalSolutions" ->
                 findOptimalSolutions(o.targetRating, o.availableRatings,
                                      o.priceByRating, o.maxSolutions)
          [] call.op = "findSquadSolutions" -> findSquadSolutions(o)
          [] call.op = "findMostEfficientSolutions" ->
                 findMostEfficientSolutions(o)

----------------------------------------------------------------------------
(* C21 *)

\* the call went through the enumeration of calculateSquadSolutions
CallEnumerates ==
    /\ pc = "done"
    /\ \/ /\ call.op = "findSquadSolutions"
          /\ CallsSearch(call.options)
       \/ /\ call.op = "calculateSquadSolutions"
          /\ call.options.targetRating \in MinRating..MaxRating
          /\ call.options.existingRatings.kind = "array"
          /\ call.options.availableRatings.kind = "array"
    /\ CallRemainingSlots > 0

\* the candidates the enumeration of the current call examines
CandidatesExamined ==
    getMultisubsets(CallAvailable.items, CallRemainingSlots)

\* C21: the exhaustive path examines C(d+k-1, k) candidates, d being the
\* number of distinct ratings in availableRatings and k the remaining slots,
\* and no two returned solutions describe the same fill multiset.
EnumeratesDistinctValues ==
    CallEnumerates
    => /\ Len(CandidatesExamined)
              = MultisetCount(Cardinality(Values(CallAvailable.items)),
                              CallRemainingSlots)
       /\ \A i, j \in 1..Len(result.solutions) :
              i # j => countRatings(result.solutions[i].combinationUsed)
                          # countRatings(result.solutions[j].combinationUsed)

----------------------------------------------------------------------------
(* C22 *)

\* the four conditions under which the fast path is tried, for a call whose
\* rosters are lists
FastPathConditions ==
    /\ Len(CallExisting.items) = 0
    /\ call.options.useOptimalCombinations
    /\ call.options.targetRating \in MinTableRating..MaxTableRating
    /\ Len(CallAvailable.items) > FastPathMinInventory

\* what the fast path answers to the current call
FastPathAnswer ==
    findOptimalSolutions(call.options.targetRating, CallAvailable,
        call.options.priceByRating,
        Num(OrDefaultNum(call.options.maxSolutions, defaultMaxSolutions)))

\* what validation followed by the exhaustive search answers
ValidatedSearchAnswer ==
    IF ~ CallValidation.valid
    THEN Returned(TRUE, JoinErrors(CallValidation.errors), 0, <<>>, FALSE)
    ELSE calculateSquadSolutions(call.options.targetRating, CallExisting,
             CallAvailable, call.options.priceByRating,
             call.options.squadSize,
             OrDefaultNum(call.options.maxSolutions, defaultMaxSolutions),
             call.options.sortByPrice)

\* C22: findSquadSolutions, given lists, returns the fast path's result as
\* it is when the four conditions hold and the fast path found a solution,
\* and in every other case the result of validation followed by the
\* exhaustive search.
FastPathDelegation ==
    ( /\ Done("findSquadSolutions")
      /\ CallExisting.kind = "array"
      /\ CallAvailable.kind = "array" )
    => IF FastPathConditions /\ FastPathAnswer.solutionsFound > 0
       THEN result = FastPathAnswer
       ELSE result = ValidatedSearchAnswer

\* the fast path answered a valid call with table entries, and the
\* enumeration over the eleven open slots was not run
FastPathDelegationWitness ==
    /\ Done("findSquadSolutions")
    /\ CallExisting.kind = "array"
    /\ CallAvailable.kind = "array"
    /\ FastPathConditions
    /\ CallValidation.valid
    /\ CallRemainingSlots = SquadCapacity
    /\ FastPathAnswer.solutionsFound > 1
    /\ result = FastPathAnswer
    /\ \A i \in 1..Len(result.solutions) : result.solutions[i].isOptimal

----------------------------------------------------------------------------
(* C23 *)

\* the feasible fills of the remaining slots that bring the roster of the
\* current call to its target
MeetingFills ==
    { fill \in FeasibleFills(CallRemainingSlots) :
          getRating(Arr(CallExisting.items \o fill))
              >= call.options.targetRating }

\* the least element of a non-empty set of numbers
Least(S) == CHOOSE x \in S : \A y \in S : x <= y

\* the first solution is a cheapest fill, or one of fewest rating points,
\* among all feasible fills that meet the target
FirstIsOptimum ==
    /\ result.kind = "returned"
    /\ result.solutionsFound >= 1
    /\ IF call.options.sortByPrice
       THEN result.solutions[1].price
                = Least({ getPrice(fill, call.options.priceByRating) :
                              fill \in MeetingFills })
       ELSE result.solutions[1].totalRatingPoints
                = Least({ SumSeq(CallExisting.items \o fill) :
                              fill \in MeetingFills })

\* a direct call with a roster, a limit of at least one solution and some
\* feasible fill that meets the target
SearchHasAnswer ==
    /\ Done("calculateSquadSolutions")
    /\ call.options.existingRatings.kind = "array"
    /\ CallMaxSolutions.value >= 1
    /\ MeetingFills # {}

\* C23 as stated: every calculateSquadSolutions call with maxSolutions >= 1
\* and some feasible fill meeting the target returns a first solution of
\* least price (sortByPrice) or of fewest total rating points (otherwise).
SearchOptimum ==
    SearchHasAnswer => FirstIsOptimum

\* C23, amended: the same for targets within [45, 99]; outside that range
\* the search is not run.
SearchOptimumInRange ==
    ( SearchHasAnswer
      /\ call.options.targetRating \in MinRating..MaxRating )
    => FirstIsOptimum

\* a search sorted by price whose cheapest fill is not the fill of fewest
\* points, cut to one solution
SearchOptimumWitness ==
    /\ SearchHasAnswer
    /\ call.options.targetRating \in MinRating..MaxRating
    /\ CallRemainingSlots > 0
    /\ call.options.sortByPrice
    /\ CallMaxSolutions.value = 1
    /\ FirstIsOptimum
    /\ \E fill \in MeetingFills :
          /\ getPrice(fill, call.options.priceByRating)
                 > result.solutions[1].price
          /\ SumSeq(CallExisting.items \o fill)
                 < result.solutions[1].totalRatingPoints

----------------------------------------------------------------------------
(* C24 *)

\* how many cards a solution's squad groups add up to
SquadCards(solution) ==
    SumSeq([i \in 1..Len(solution.squad) |-> solution.squad[i].count])

\* C24: every solution findSquadSolutions returns for a squadSize within
\* [1, 23] fills exactly the remaining slots, squadSize - |existingRatings|
\* (none for a full roster), whichever path produced it.
FillSize ==
    ( /\ Done("findSquadSolutions")
      /\ result.kind = "returned"
      /\ call.options.squadSize \in MinSquadSize..MaxSquadSize )
    => \A i \in 1..Len(result.solutions) :
           SquadCards(result.solutions[i]) = Max2(CallRemainingSlots, 0)

----------------------------------------------------------------------------
(* C25 *)

\* two ratios of integers with positive denominators are the same number
SameRatio(a, b) == a.num * b.den = b.num * a.den

\* C25: called with a target within [45, 99] and a roster that leaves no slot
\* open, calculateSquadSolutions returns one solution of price 0, empty
\* squad, the roster's rating, the roster's total points and efficiency
\* total / max(rating, 1) when the roster rates at least the target, and no
\* solution otherwise.
FullRosterAnswer ==
    ( /\ Done("calculateSquadSolutions")
      /\ call.options.targetRating \in MinRating..MaxRating
      /\ call.options.existingRatings.kind = "array"
      /\ CallRemainingSlots <= 0 )
    => LET currentRating == getRating(CallExisting)
           total == SumSeq(CallExisting.items)
       IN  /\ result.kind = "returned"
           /\ ~ result.hasError
           /\ IF currentRating >= call.options.targetRating
              THEN /\ result.solutionsFound = 1
                   /\ Len(result.solutions) = 1
                   /\ result.solutions[1].price = 0
                   /\ result.solutions[1].squad = <<>>
                   /\ result.solutions[1].actualRating = currentRating
                   /\ result.solutions[1].totalRatingPoints = total
                   /\ SameRatio(result.solutions[1].efficiency,
                                Ratio(total, Max2(currentRating, 1)))
              ELSE /\ result.solutionsFound = 0
                   /\ result.solutions = <<>>

----------------------------------------------------------------------------
(* C26 *)

\* the roster with member i raised by one rating point
Raised(roster, i) == [roster EXCEPT ![i] = roster[i] + 1]

\* the roster with members i and j exchanged
Swapped(roster, i, j) ==
    [roster EXCEPT ![i] = roster[j], ![j] = roster[i]]

\* ratings a newcomer to an empty slot may have
NewcomerRatings == {0, 1, 45, 83, 99}

\* the roster of the current calculateTeamRating call has 1 to 11 members
RosterRated ==
    /\ Done("calculateTeamRating")
    /\ call.ratings.kind = "array"
    /\ Len(call.ratings.items) \in 1..SquadCapacity

\* C26: for a roster of 1 to 11 ratings, raising one member by 1 or putting
\* a member in an empty slot never lowers the rating, and exchanging two
\* members leaves it as it is.
RatingMonotone ==
    RosterRated
    => LET roster == call.ratings.items
       IN  /\ \A i \in 1..Len(roster) :
                  getRating(Arr(Raised(roster, i))) >= result.value
           /\ Len(roster) < SquadCapacity
                  => \A m \in NewcomerRatings :
                         getRating(Arr(roster \o <<m>>)) >= result.value
           /\ \A i, j \in 1..Len(roster) :
                  getRating(Arr(Swapped(roster, i, j))) = result.value

\* a roster of two ratings whose rating goes up when a low member is raised
\* and is the same with a low and a high member exchanged
RatingMonotoneWitness ==
    /\ RosterRated
    /\ LET roster == call.ratings.items
       IN  \E i, j \in 1..Len(roster) :
              /\ roster[i] < roster[j]
              /\ getRating(Arr(Raised(roster, i))) > result.value
              /\ getRating(Arr(Swapped(roster, i, j))) = result.value

====
